---------------------------- MODULE Spec2Model ----------------------------
(***************************************************************************)
(* The AfreecaTV extractors of yt_dlp/extractor/afreecatv.py as one state  *)
(* machine: one extractor call per behaviour.  A call is the login         *)
(* (_perform_login), the VOD resolution (AfreecaTVIE._real_extract), the   *)
(* live resolution (AfreecaTVLiveIE._real_extract) or the user listing     *)
(* (AfreecaTVUserIE._real_extract and the consumption of its entries).     *)
(* Every network request is a step whose answer is drawn from a small set. *)
(***************************************************************************)
EXTENDS Integers, Sequences, FiniteSets, TLC

VARIABLES
    pc,             \* position of the running call
    ie,             \* the extractor class the call runs on
    username,       \* the credentials the host holds (None: no credentials)
    requests,       \* the network requests issued so far, in order (by the
                    \* running consumption, for a listing)
    warnings,       \* the warnings reported so far, in order
    error,          \* the exception the call ended with (None: none)
    result,         \* the value the call returned (None: none yet)
    response,       \* _perform_login: the login response
    data,           \* VOD: the 'data' object of the view-info response
    flagInspected,  \* VOD: whether data['flag'] has been read
    common_info,    \* VOD: the fields merged into every entry
    files,          \* VOD: the file elements that passed url_or_none
    entries,        \* VOD: the entries built so far
    channel_info,   \* live: info['CHANNEL'] or {}
    broadcaster_id, \* live
    broadcast_no,   \* live
    password,       \* live: the videopassword parameter
    qi,             \* live: index into _QUALITIES of the tier being probed
    aid,            \* live: the access token of the current tier
    formats,        \* live: the formats appended so far
    answers,        \* live: the answer to each request, in request order
    user_type,      \* listing: the slug, 'all' when absent
    listing,        \* listing: the item count the server has on each page
    run,            \* listing: which consumption of the entries is running
    pagenum,        \* listing: the next page index the paged list asks for
    yielded,        \* listing: the items yielded by the running consumption
    firstRun        \* listing: requests and items of the finished first run

vars == <<pc, ie, username, requests, warnings, error, result, response, data,
          flagInspected, common_info, files, entries, channel_info,
          broadcaster_id, broadcast_no, password, qi, aid, formats,
          answers, user_type, listing, run, pagenum, yielded, firstRun>>

loginVars == <<response>>
vodVars == <<data, flagInspected, common_info, files, entries>>
liveVars == <<channel_info, broadcaster_id, broadcast_no, password, qi, aid,
              formats, answers>>
userVars == <<user_type, listing, run, pagenum, yielded, firstRun>>

(***************************************************************************)
(* Bounds of the model.                                                    *)
(***************************************************************************)
MaxChars == 2       \* longest RESULT string of a login response
MaxFiles == 2       \* most file elements of a view-info response
MaxPages == 2       \* most pages on which the listing server has an answer
MaxRuns == 2        \* how many times the entries are consumed from the start

(***************************************************************************)
(* Python values.  A value carries its type; a dict read with .get() gives *)
(* None for an absent key.  Three kinds of str are told apart by their     *)
(* payload: opaque text (s), a character sequence that int() may parse     *)
(* (chars) and a URL as the tokens its recognisers look at (u).            *)
(***************************************************************************)
None == [t |-> "none"]
False == [t |-> "bool", b |-> FALSE]
PyInt(n) == [t |-> "int", v |-> n]
PyStr(x) == [t |-> "str", s |-> x]
Chars(cs) == [t |-> "str", chars |-> cs]
Url(toks) == [t |-> "str", u |-> toks]

Truthy(x) ==
    CASE x.t = "none" -> FALSE
      [] x.t = "bool" -> x.b
      [] x.t = "int" -> x.v # 0
      [] x.t = "str" -> x \notin {PyStr(""), Chars(<<>>), Url(<<>>)}
      [] OTHER -> TRUE

Or(x, y) == IF Truthy(x) THEN x ELSE y

SeqsUpTo(S, n) == UNION {[1..k -> S] : k \in 0..n}

Last(s) == s[Len(s)]

RECURSIVE SelectSeqBy(_, _)
SelectSeqBy(s, keep) ==
    IF s = <<>> THEN <<>>
    ELSE (IF Head(s) \in keep THEN <<Head(s)>> ELSE <<>>)
         \o SelectSeqBy(Tail(s), keep)

(***************************************************************************)
(* utils.int_or_none as the extractor uses it: int(v) * 1 // scale, None   *)
(* when int() raises.  int() of a str takes an optional sign and digits.   *)
(***************************************************************************)
Digits == {"0", "1"}
DigitValue(c) == IF c = "1" THEN 1 ELSE 0

RECURSIVE DigitsValue(_)
DigitsValue(cs) ==
    IF cs = <<>> THEN 0
    ELSE 10 * DigitsValue(SubSeq(cs, 1, Len(cs) - 1)) + DigitValue(Last(cs))

AllDigits(cs) == cs # <<>> /\ \A i \in 1..Len(cs) : cs[i] \in Digits

IsNumeral(cs) ==
    \/ AllDigits(cs)
    \/ cs # <<>> /\ Head(cs) = "-" /\ AllDigits(Tail(cs))

NumeralValue(cs) ==
    IF Head(cs) = "-" THEN 0 - DigitsValue(Tail(cs)) ELSE DigitsValue(cs)

int_or_none(v, scale) ==
    CASE v.t = "int" -> PyInt(v.v \div scale)
      [] v.t = "str" /\ "chars" \in DOMAIN v /\ IsNumeral(v.chars) ->
            PyInt(NumeralValue(v.chars) \div scale)
      [] OTHER -> None

(***************************************************************************)
(* traverse_obj(obj, (key, {type})): the value under key when it has the   *)
(* type, None otherwise.                                                   *)
(***************************************************************************)
OfType(v, type) == IF v.t = type THEN v ELSE None

(***************************************************************************)
(* utils.url_or_none and utils.determine_ext on a URL given as tokens: a   *)
(* scheme token, "//", then text, "." and "?" tokens.                      *)
(***************************************************************************)
UrlSchemes == {"http:", "https:", "rtmp:", "rtsp:", "mms:", "ftp:", "ftps:"}

url_or_none(v) ==
    IF /\ v.t = "str"
       /\ "u" \in DOMAIN v
       /\ \/ Len(v.u) >= 1 /\ v.u[1] = "//"
          \/ Len(v.u) >= 2 /\ v.u[1] \in UrlSchemes /\ v.u[2] = "//"
    THEN v
    ELSE None

RECURSIVE BeforeQuery(_)
BeforeQuery(toks) ==
    IF toks = <<>> \/ Head(toks) = "?" THEN <<>>
    ELSE <<Head(toks)>> \o BeforeQuery(Tail(toks))

determine_ext(v) ==
    LET path == BeforeQuery(v.u)
    IN  IF Len(path) >= 2 /\ path[Len(path) - 1] = "."
        THEN Last(path)
        ELSE "unknown_video"

(***************************************************************************)
(* The exceptions and the requests of the calls.                           *)
(***************************************************************************)
ExtractorError(msg) == [type |-> "ExtractorError", msg |-> msg, expected |-> TRUE]

\* what the host's _download_json raises when a fetch with fatal left at its
\* default fails
DownloadError == [type |-> "ExtractorError", msg |-> "download failed", expected |-> FALSE]

TypeError == [type |-> "TypeError", msg |-> "'bool' object is not subscriptable", expected |-> FALSE]

Request(url, what) == [url |-> url, what |-> what]

\* faulty variant: every call left at the default, fatal
fatal_AllFatal(call) == TRUE

\* the fatal argument of each _download_json call: False where the call
\* passes fatal=False, the default (True) elsewhere
fatal(call) == call \notin {"info", "token", "stream", "station"}

\* what a failed fetch leads to: the host raises when the call is fatal, and
\* hands back False otherwise
FetchFailure(call) == IF fatal(call) THEN DownloadError ELSE TypeError

IE_NAME(class) ==
    CASE class = "AfreecaTVIE" -> "afreecatv"
      [] class = "AfreecaTVLiveIE" -> "afreecatv:live"
      [] OTHER -> "afreecatv:user"

(***************************************************************************)
(* The host calls one entry point.  _perform_login is called only with     *)
(* credentials; AfreecaTVLiveIE inherits it from AfreecaTVIE.              *)
(***************************************************************************)
Init ==
    /\ pc = "idle"
    /\ ie = "none"
    /\ username \in {None, PyStr("user")}
    /\ requests = <<>>
    /\ warnings = <<>>
    /\ error = None
    /\ result = None
    /\ response = None
    /\ data = None
    /\ flagInspected = FALSE
    /\ common_info = None
    /\ files = <<>>
    /\ entries = <<>>
    /\ channel_info = None
    /\ broadcaster_id = None
    /\ broadcast_no = None
    /\ password = None
    /\ qi = 0
    /\ aid = None
    /\ formats = <<>>
    /\ answers = <<>>
    /\ user_type = None
    /\ listing = <<>>
    /\ run = 0
    /\ pagenum = 0
    /\ yielded = <<>>
    /\ firstRun = None

Raise(e) == pc' = "failed" /\ error' = e /\ result' = None

Return(v) == pc' = "done" /\ result' = v /\ error' = None

(***************************************************************************)
(* AfreecaTVIE._perform_login                                              *)
(***************************************************************************)
LoginURL == "https://login.afreecatv.com/app/LoginAction.php"

GenericLoginError == "You have failed to log in."

_ERRORS(code) ==
    CASE code = PyInt(-4) -> "Your account has been suspended due to a violation of our terms and policies."
      [] code = PyInt(-5) -> "https://member.afreecatv.com/app/user_delete_progress.php"
      [] code = PyInt(-6) -> "https://login.afreecatv.com/membership/changeMember.php"
      [] code = PyInt(-8) -> "Hello! AfreecaTV here.\nThe username you have entered belongs to \n an account that requires a legal guardian's consent. \nIf you wish to use our services without restriction, \nplease make sure to go through the necessary verification process."
      [] code = PyInt(-9) -> "https://member.afreecatv.com/app/pop_login_block.php"
      [] code = PyInt(-11) -> "https://login.afreecatv.com/afreeca/second_login.php"
      [] code = PyInt(-12) -> "https://member.afreecatv.com/app/user_security.php"
      [] code = PyInt(0) -> "The username does not exist or you have entered the wrong password."
      [] code = PyInt(-1) -> "The username does not exist or you have entered the wrong password."
      [] code = PyInt(-3) -> "You have entered your username/password incorrectly."
      [] code = PyInt(-7) -> "You cannot use your Global AfreecaTV account to access Korean AfreecaTV."
      [] code = PyInt(-10) -> "Sorry for the inconvenience. \nYour account has been blocked due to an unauthorized access. \nPlease contact our Help Center for assistance."
      [] code = PyInt(-32008) -> "You have failed to log in. Please contact our Help Center."
      [] OTHER -> GenericLoginError

LoginChars == {"-", "0", "1", "a"}

\* the RESULT field of a login response: absent, an integer or a string
LoginResults ==
    {None}
    \cup {PyInt(n) : n \in (-13..2) \cup {-32008}}
    \cup {Chars(cs) : cs \in SeqsUpTo(LoginChars, MaxChars)}

CallLogin ==
    /\ pc = "idle"
    /\ username # None
    /\ \E class \in {"AfreecaTVIE", "AfreecaTVLiveIE"} : ie' = class
    /\ pc' = "login"
    /\ UNCHANGED <<username, requests, warnings, error, result>>
    /\ UNCHANGED <<loginVars, vodVars, liveVars, userVars>>

\* faulty variant: the test "if not result" for "if result != 1"
LoginSucceeded_Truthy(res) == Truthy(res)

LoginSucceeded(res) == res = PyInt(1)

LoginFailure(class, res) ==
    ExtractorError("Unable to login: " \o IE_NAME(class) \o " said: " \o _ERRORS(res))

PerformLogin ==
    /\ pc = "login"
    /\ requests' = Append(requests, Request(PyStr(LoginURL), "Logging in"))
    /\ \/ /\ Raise(FetchFailure("login"))
          /\ UNCHANGED response
       \/ \E r \in LoginResults :
            /\ response' = [RESULT |-> r]
            /\ LET res == int_or_none(r, 1)
               IN  IF LoginSucceeded(res)
                   THEN Return(None)
                   ELSE Raise(LoginFailure(ie, res))
    /\ UNCHANGED <<ie, username, warnings>>
    /\ UNCHANGED <<vodVars, liveVars, userVars>>

(***************************************************************************)
(* AfreecaTVIE._real_extract                                               *)
(***************************************************************************)
ViewURL == "https://api.m.afreecatv.com/station/video/a/view"

video_id == "121155561"

M3U8File == Url(<<"https:", "//", "vod.example/hls/a", ".", "m3u8">>)
M3U8QueryFile == Url(<<"https:", "//", "vod.example/hls/d", ".", "m3u8", "?", "src=d", ".", "mp4">>)
Mp4File == Url(<<"https:", "//", "vod.example/b", ".", "mp4">>)
RelativeFile == Url(<<"/files/c", ".", "mp4">>)

\* the elements of data['files']: 'file' a URL, a string that is none, or absent
FileElements ==
    { [file |-> M3U8File, file_info_key |-> PyStr("key_a"), duration |-> PyInt(2500)],
      [file |-> M3U8QueryFile, file_info_key |-> None, duration |-> None],
      [file |-> Mp4File, file_info_key |-> None, duration |-> None],
      [file |-> Mp4File, file_info_key |-> PyStr("key_b"), duration |-> PyInt(7999)],
      [file |-> RelativeFile, file_info_key |-> PyStr("key_c"), duration |-> PyInt(4000)],
      [file |-> None, file_info_key |-> None, duration |-> None] }

\* the 'data' objects of a view-info response
ViewData ==
    [ code : {None, PyInt(0), PyInt(-6221), PyInt(-6205), PyStr("-6221")},
      flag : {None, PyStr("SUCCEED"), PyStr("PARTIAL_ADULT"), PyStr("ADULT")},
      title : {None, PyStr(""), PyStr("Joker")},
      writer_nick : {PyStr("nick")},
      total_file_duration : {None, PyInt(17999)},
      files : SeqsUpTo(FileElements, MaxFiles) ]

\* what _extract_m3u8_formats gives for a manifest: its variants, or (fatal,
\* the default) an exception
M3U8Variants == {1, 2}

RECURSIVE M3U8Formats(_, _)
M3U8Formats(file_url, n) ==
    IF n = 0 THEN <<>>
    ELSE Append(M3U8Formats(file_url, n - 1),
                [url |-> file_url, format_id |-> "hls-" \o ToString(n)])

PartialAdultWarning ==
    "In accordance with local laws and regulations, underage users are restricted from watching adult content. Only content suitable for all ages will be downloaded."

LoginRequired(msg) ==
    [type |-> "ExtractorError", msg |-> msg, expected |-> TRUE, method |-> "netrc"]

CallVod ==
    /\ pc = "idle"
    /\ ie' = "AfreecaTVIE"
    /\ pc' = "vod_view"
    /\ UNCHANGED <<username, requests, warnings, error, result>>
    /\ UNCHANGED <<loginVars, vodVars, liveVars, userVars>>

\* lines 146-153: the view-info request (fatal)
DownloadView ==
    /\ pc = "vod_view"
    /\ requests' = Append(requests, Request(PyStr(ViewURL), "view"))
    /\ \/ /\ Raise(FetchFailure("view"))
          /\ UNCHANGED data
       \/ \E d \in ViewData :
            /\ data' = d
            /\ pc' = "vod_code"
            /\ UNCHANGED <<error, result>>
    /\ UNCHANGED <<ie, username, warnings, flagInspected, common_info, files, entries>>
    /\ UNCHANGED <<loginVars, liveVars, userVars>>

\* faulty variant: the two messages exchanged
CodeError_Swapped(error_code) ==
    CASE error_code = PyInt(-6221) -> [type |-> "ExtractorError", msg |-> "This VOD is private", expected |-> TRUE]
      [] error_code = PyInt(-6205) -> [type |-> "ExtractorError", msg |-> "The VOD does not exist", expected |-> TRUE]
      [] OTHER -> None

CodeError(error_code) ==
    CASE error_code = PyInt(-6221) -> ExtractorError("The VOD does not exist")
      [] error_code = PyInt(-6205) -> ExtractorError("This VOD is private")
      [] OTHER -> None

\* lines 155-159
CheckCode ==
    /\ pc = "vod_code"
    /\ LET error_code == OfType(data.code, "int")
       IN  IF CodeError(error_code) # None
           THEN Raise(CodeError(error_code))
           ELSE pc' = "vod_flag" /\ UNCHANGED <<error, result>>
    /\ UNCHANGED <<ie, username, requests, warnings>>
    /\ UNCHANGED <<loginVars, vodVars, liveVars, userVars>>

\* faulty variant: the two branches exchanged
FlagAction_Swapped(flag) ==
    CASE flag = PyStr("PARTIAL_ADULT") -> "raise"
      [] flag = PyStr("ADULT") -> "warn"
      [] OTHER -> "pass"

\* what the flag leads to: a warning, an exception, or nothing
FlagAction(flag) ==
    CASE flag = PyStr("PARTIAL_ADULT") -> "warn"
      [] flag = PyStr("ADULT") -> "raise"
      [] OTHER -> "pass"

\* lines 171-177: None values are left out of the dict; .get() gives None
CommonInfo(d) ==
    [ title |-> OfType(d.title, "str"),
      uploader |-> OfType(d.writer_nick, "str"),
      duration |-> int_or_none(d.total_file_duration, 1000) ]

\* line 180: the file elements whose 'file' is a URL, in response order
ValidFiles(fs) == SelectSeqBy(fs, {f \in FileElements : url_or_none(f.file) # None})

\* lines 161-180
CheckFlag ==
    /\ pc = "vod_flag"
    /\ flagInspected' = TRUE
    /\ LET flag == OfType(data.flag, "str")
       IN  CASE FlagAction(flag) = "warn" ->
                  /\ warnings' = Append(warnings, PartialAdultWarning)
                  /\ pc' = "vod_files"
                  /\ common_info' = CommonInfo(data)
                  /\ files' = ValidFiles(data.files)
                  /\ UNCHANGED <<error, result>>
             [] FlagAction(flag) = "raise" ->
                  /\ Raise(LoginRequired("Only users older than 19 are able to watch this video"))
                  /\ UNCHANGED <<warnings, common_info, files>>
             [] OTHER ->
                  /\ pc' = "vod_files"
                  /\ common_info' = CommonInfo(data)
                  /\ files' = ValidFiles(data.files)
                  /\ UNCHANGED <<warnings, error, result>>
    /\ UNCHANGED <<ie, username, requests, data, entries>>
    /\ UNCHANGED <<loginVars, liveVars, userVars>>

\* faulty variant: enumerate() left to start at 0
PartTitle_FromZero(title, file_num) ==
    PyStr(Or(title, PyStr("Untitled")).s \o " (part " \o ToString(file_num - 1) \o ")")

PartTitle(title, file_num) ==
    PyStr(Or(title, PyStr("Untitled")).s \o " (part " \o ToString(file_num) \o ")")

\* lines 192-201: the per-file fields override the common ones
Entry(info, file_element, file_num, fmts) ==
    [ id |-> Or(file_element.file_info_key, PyStr(video_id \o "_" \o ToString(file_num))),
      title |-> PartTitle(info.title, file_num),
      uploader |-> info.uploader,
      duration |-> LET d == int_or_none(file_element.duration, 1000)
                   IN  IF d # None THEN d ELSE info.duration,
      formats |-> fmts ]

M3U8Note(file_num) == "Downloading part " \o ToString(file_num) \o " m3u8 information"

\* lines 179-201: one iteration of the loop over the file elements
ProcessFile ==
    /\ pc = "vod_files"
    /\ Len(entries) < Len(files)
    /\ LET file_num == Len(entries) + 1
           file_element == files[file_num]
           file_url == file_element.file
       IN  IF determine_ext(file_url) = "m3u8"
           THEN /\ requests' = Append(requests, Request(file_url, M3U8Note(file_num)))
                /\ \/ /\ Raise(DownloadError)
                      /\ UNCHANGED entries
                   \/ \E n \in M3U8Variants :
                        /\ entries' = Append(entries,
                              Entry(common_info, file_element, file_num, M3U8Formats(file_url, n)))
                        /\ UNCHANGED <<pc, error, result>>
           ELSE /\ entries' = Append(entries,
                      Entry(common_info, file_element, file_num,
                            <<[url |-> file_url, format_id |-> "http"]>>))
                /\ UNCHANGED <<pc, error, result, requests>>
    /\ UNCHANGED <<ie, username, warnings, data, flagInspected, common_info, files>>
    /\ UNCHANGED <<loginVars, liveVars, userVars>>

\* line 202
IsSingle(es) == Len(es) = 1

\* faulty variant: the title of the entry kept
SingleResult_PartTitle(es, info) ==
    [_type |-> "video", id |-> es[1].id, title |-> es[1].title,
     uploader |-> es[1].uploader, duration |-> es[1].duration,
     formats |-> es[1].formats]

\* lines 203-206
SingleResult(es, info) ==
    [_type |-> "video", id |-> es[1].id, title |-> info.title,
     uploader |-> es[1].uploader, duration |-> es[1].duration,
     formats |-> es[1].formats]

\* line 208
PlaylistResult(es, info) ==
    [_type |-> "multi_video", id |-> PyStr(video_id), title |-> info.title,
     uploader |-> info.uploader, duration |-> info.duration, entries |-> es]

\* lines 202-208
Assemble ==
    /\ pc = "vod_files"
    /\ Len(entries) = Len(files)
    /\ IF IsSingle(entries)
       THEN Return(SingleResult(entries, common_info))
       ELSE Return(PlaylistResult(entries, common_info))
    /\ UNCHANGED <<ie, username, requests, warnings>>
    /\ UNCHANGED <<loginVars, vodVars, liveVars, userVars>>

(***************************************************************************)
(* AfreecaTVLiveIE._real_extract                                           *)
(***************************************************************************)
_LIVE_API_URL == "https://live.afreecatv.com/afreeca/player_live_api.php"

StationURL == "https://st.afreecatv.com/api/get_station_status.php"

DefaultStreamBase == "https://livestream-manager.afreecatv.com"

_QUALITIES == <<"sd", "hd", "hd2k", "original">>

\* utils.qualities(_QUALITIES): the index in the list, -1 for a stranger
quality_key(quality_str) ==
    IF \E i \in 1..Len(_QUALITIES) : _QUALITIES[i] = quality_str
    THEN (CHOOSE i \in 1..Len(_QUALITIES) : _QUALITIES[i] = quality_str) - 1
    ELSE -1

\* info['CHANNEL']; an absent key reads as None
Channels ==
    [ BJID : {PyStr("pyh3646")},
      BNO : {None, PyStr("555")},
      BPWD : {None, PyStr("Y")},
      RMD : {None, PyStr("https://rmd.example")},
      TITLE : {None, PyStr("live title")} ]

EmptyChannel == [BJID |-> None, BNO |-> None, BPWD |-> None, RMD |-> None, TITLE |-> None]

\* the answers to the channel-info request: False when the fetch failed
\* (fatal=False), else a dict with or without 'CHANNEL'
InfoAnswers == {False, None} \cup Channels

\* the answers to a token request: False when the fetch failed, else the
\* value under CHANNEL/AID
TokenOf(quality_str) == PyStr("aid_" \o quality_str)
AidAnswers(quality_str) == {False, None, PyStr(""), TokenOf(quality_str)}

\* the answers to a stream-assignment request: False when the fetch failed,
\* else the value under 'view_url'
ViewUrlOf(quality_str) == Url(<<"https:", "//", "cdn.example/" \o quality_str, ".", "m3u8">>)
StreamAnswers(quality_str) == {False, None, ViewUrlOf(quality_str)}

\* utils.update_url_query on a URL that has no query yet
update_url_query(url, key, value) ==
    [t |-> "str", u |-> url.u, query |-> <<[key |-> key, value |-> value.s]>>]

\* a fetch with fatal=False that failed reports its errnote as a warning
Warned(answer, errnote) ==
    IF answer = False THEN Append(warnings, errnote) ELSE warnings

CallLive ==
    /\ pc = "idle"
    /\ ie' = "AfreecaTVLiveIE"
    /\ pc' = "live_info"
    /\ broadcaster_id' = PyStr("pyh3646")
    /\ broadcast_no' \in {None, PyStr("237852185")}
    /\ password' \in {None, PyStr("secret")}
    /\ UNCHANGED <<username, requests, warnings, error, result>>
    /\ UNCHANGED <<channel_info, qi, aid, formats, answers>>
    /\ UNCHANGED <<loginVars, vodVars, userVars>>

NotLive(bj) ==
    ExtractorError("Unable to extract broadcast number (" \o bj.s \o " may not be live)")

PasswordNeeded ==
    ExtractorError("This livestream is protected by a password, use the --video-password option")

\* faulty variant: the supplied password not looked at
NeedsPassword_Always(password_protected, pw) == password_protected = PyStr("Y")

\* line 251
NeedsPassword(password_protected, pw) == password_protected = PyStr("Y") /\ pw = None

\* lines 243-257
DownloadInfo ==
    /\ pc = "live_info"
    /\ requests' = Append(requests, Request(PyStr(_LIVE_API_URL), "bid"))
    /\ \E info \in InfoAnswers :
         LET channel == IF info \in Channels THEN info ELSE EmptyChannel
             bj == Or(channel.BJID, broadcaster_id)
             bno == Or(channel.BNO, broadcast_no)
         IN  /\ answers' = Append(answers, info)
             /\ IF info = False /\ fatal("info")
                THEN /\ Raise(DownloadError)
                     /\ UNCHANGED <<warnings, channel_info, broadcaster_id, broadcast_no, qi>>
                ELSE /\ warnings' = Warned(info, "Unable to download JSON metadata")
                     /\ channel_info' = channel
                     /\ broadcaster_id' = bj
                     /\ broadcast_no' = bno
                     /\ IF ~Truthy(bno)
                        THEN Raise(NotLive(bj)) /\ UNCHANGED qi
                        ELSE IF NeedsPassword(channel.BPWD, password)
                        THEN Raise(PasswordNeeded) /\ UNCHANGED qi
                        ELSE pc' = "live_aid" /\ qi' = 1 /\ UNCHANGED <<error, result>>
    /\ UNCHANGED <<ie, username, password, aid, formats>>
    /\ UNCHANGED <<loginVars, vodVars, userVars>>

\* the loop of line 258 goes on to the next tier, or ends
NextTier(i) == IF i < Len(_QUALITIES) THEN "live_aid" ELSE "live_station"

TokenNote(quality_str) == "Downloading access token for " \o quality_str \o " stream"
TokenErrnote(quality_str) == "Unable to download access token for " \o quality_str \o " stream"
StreamNote(quality_str) == "Downloading metadata for " \o quality_str \o " stream"
StreamErrnote(quality_str) == "Unable to download metadata for " \o quality_str \o " stream"

\* lines 258-274: the token request of one tier
ProbeToken ==
    /\ pc = "live_aid"
    /\ LET quality_str == _QUALITIES[qi]
       IN  /\ requests' = Append(requests,
                  Request(PyStr(_LIVE_API_URL), TokenNote(quality_str)))
           /\ \E aid_response \in AidAnswers(quality_str) :
                LET token == IF aid_response = False THEN None ELSE aid_response
                IN  /\ answers' = Append(answers, aid_response)
                    /\ IF aid_response = False /\ fatal("token")
                       THEN /\ Raise(DownloadError)
                            /\ UNCHANGED <<warnings, qi, aid>>
                       ELSE /\ warnings' = Warned(aid_response, TokenErrnote(quality_str))
                            /\ UNCHANGED <<error, result>>
                            /\ IF ~Truthy(token)
                               THEN /\ pc' = NextTier(qi)
                                    /\ qi' = qi + 1
                                    /\ aid' = None
                               ELSE /\ pc' = "live_stream"
                                    /\ aid' = token
                                    /\ UNCHANGED qi
    /\ UNCHANGED <<ie, username>>
    /\ UNCHANGED <<channel_info, broadcaster_id, broadcast_no, password, formats>>
    /\ UNCHANGED <<loginVars, vodVars, userVars>>

\* faulty variant: the token not put into the URL
LiveFormat_NoAid(quality_str, view_url, token) ==
    [ format_id |-> quality_str,
      url |-> view_url,
      ext |-> "mp4",
      protocol |-> "m3u8",
      quality |-> quality_key(quality_str) ]

\* lines 287-293
LiveFormat(quality_str, view_url, token) ==
    [ format_id |-> quality_str,
      url |-> update_url_query(view_url, "aid", token),
      ext |-> "mp4",
      protocol |-> "m3u8",
      quality |-> quality_key(quality_str) ]

\* lines 276-285
StreamRequest(channel, bno, quality_str) ==
    Request(PyStr(Or(channel.RMD, PyStr(DefaultStreamBase)).s \o "/broad_stream_assign.html"
                  \o "?return_type=gcp_cdn&broad_key=" \o bno.s \o "-common-"
                  \o quality_str \o "-hls"),
            StreamNote(quality_str))

\* lines 276-293: the stream-assignment request of a tier that has a token
AssignStream ==
    /\ pc = "live_stream"
    /\ LET quality_str == _QUALITIES[qi]
       IN  /\ requests' = Append(requests,
                  StreamRequest(channel_info, broadcast_no, quality_str))
           /\ \E stream_info \in StreamAnswers(quality_str) :
                LET view_url == IF stream_info = False THEN None ELSE stream_info
                IN  /\ answers' = Append(answers, stream_info)
                    /\ IF stream_info = False /\ fatal("stream")
                       THEN /\ Raise(DownloadError)
                            /\ UNCHANGED <<warnings, formats, qi, aid>>
                       ELSE /\ warnings' = Warned(stream_info, StreamErrnote(quality_str))
                            /\ formats' = IF Truthy(view_url)
                                          THEN Append(formats,
                                                  LiveFormat(quality_str, view_url, aid))
                                          ELSE formats
                            /\ pc' = NextTier(qi)
                            /\ qi' = qi + 1
                            /\ aid' = None
                            /\ UNCHANGED <<error, result>>
    /\ UNCHANGED <<ie, username>>
    /\ UNCHANGED <<channel_info, broadcaster_id, broadcast_no, password>>
    /\ UNCHANGED <<loginVars, vodVars, userVars>>

\* the answers to the station-status request: False when the fetch failed,
\* else the value under 'station_title'
StationAnswers == {False, PyStr("station title")}

\* lines 295-308
DownloadStation ==
    /\ pc = "live_station"
    /\ requests' = Append(requests, Request(PyStr(StationURL), "Downloading channel metadata"))
    /\ \E station_info \in StationAnswers :
         /\ answers' = Append(answers, station_info)
         /\ IF station_info = False /\ fatal("station")
            THEN Raise(DownloadError) /\ UNCHANGED warnings
            ELSE /\ warnings' = Warned(station_info, "Unable to download channel metadata")
                 /\ Return([ id |-> broadcast_no,
                             title |-> Or(channel_info.TITLE,
                                          IF station_info = False THEN None ELSE station_info),
                             uploader_id |-> broadcaster_id,
                             formats |-> formats,
                             is_live |-> TRUE ])
    /\ UNCHANGED <<ie, username>>
    /\ UNCHANGED <<channel_info, broadcaster_id, broadcast_no, password, qi, aid, formats>>
    /\ UNCHANGED <<loginVars, vodVars, userVars>>

(***************************************************************************)
(* AfreecaTVUserIE: _real_extract, _fetch_page, and the consumption of the *)
(* lazily paged entries by the host.                                       *)
(***************************************************************************)
_PER_PAGE == 60

user_id == "ryuryu24"

\* the item counts a listing page can have: none, a short page, a full page
PageSizes == {0, 1, _PER_PAGE}

\* the item count the server has on page p (1-based); none past its last page
ItemsOnPage(p) == IF p \in 1..Len(listing) THEN listing[p] ELSE 0

\* the title_no of the k-th item of the listing
TitleNo(k) == 1000 + k

\* info['data'] of page p: its items in listing order
PageData(p) == [k \in 1..ItemsOnPage(p) |-> TitleNo((p - 1) * _PER_PAGE + k)]

\* faulty variant: the page index not made 1-based
PageNumber_ZeroBased(page) == page

\* line 350
PageNumber(page) == page + 1

\* lines 351-353
PageRequest(type, page) ==
    Request(PyStr("https://bjapi.afreecatv.com/api/" \o user_id \o "/vods/" \o type.s
                  \o "?page=" \o ToString(page) \o "&per_page=" \o ToString(_PER_PAGE)
                  \o "&orderby=reg_date"),
            "Downloading " \o type.s \o " video page " \o ToString(page))

\* lines 355-356
url_result(title_no) ==
    [ _type |-> "url",
      url |-> "https://vod.afreecatv.com/player/" \o ToString(title_no) \o "/",
      ie_key |-> "AfreecaTV",
      id |-> title_no ]

\* lines 354-356: the items a page yields
PageEntries(items) == [k \in 1..Len(items) |-> url_result(items[k])]

\* faulty variant: the first page fetched while the list is built
InitialRequests_Eager(type) ==
    <<Request(PyStr("https://bjapi.afreecatv.com/api/" \o user_id \o "/vods/" \o type.s
                    \o "?page=1&per_page=60&orderby=reg_date"),
              "Downloading " \o type.s \o " video page 1")>>

\* line 361: the requests _real_extract itself issues while it builds the
\* paged list (functools.partial binds the arguments and calls nothing)
InitialRequests(type) == <<>>

\* lines 358-362
CallUser ==
    /\ pc = "idle"
    /\ ie' = "AfreecaTVUserIE"
    /\ \E slug \in {None, PyStr("review")} :
         /\ user_type' = Or(slug, PyStr("all"))
         /\ requests' = InitialRequests(Or(slug, PyStr("all")))
         /\ result' = [ _type |-> "playlist", id |-> user_id,
                        title |-> user_id \o " - " \o Or(slug, PyStr("all")).s ]
    /\ listing' \in SeqsUpTo(PageSizes, MaxPages)
    /\ pc' = "user_ready"
    /\ UNCHANGED <<username, warnings, error>>
    /\ UNCHANGED <<run, pagenum, yielded, firstRun>>
    /\ UNCHANGED <<loginVars, vodVars, liveVars>>

\* the paged list ends at a page that returned no items
LastPage(items) == items = <<>>

\* the consumer starts to read the entries from the start
StartRun ==
    /\ pc \in {"user_ready", "user_exhausted"}
    /\ run < MaxRuns
    /\ run' = run + 1
    /\ pagenum' = 0
    /\ yielded' = <<>>
    /\ requests' = <<>>
    /\ firstRun' = IF run = 1 THEN [requests |-> requests, yielded |-> yielded] ELSE firstRun
    /\ pc' = "user_consume"
    /\ UNCHANGED <<ie, username, warnings, error, result, user_type, listing>>
    /\ UNCHANGED <<loginVars, vodVars, liveVars>>

\* lines 349-356, called by the paged list as the consumer advances
FetchPage ==
    /\ pc = "user_consume"
    /\ LET page == PageNumber(pagenum)
       IN  /\ requests' = Append(requests, PageRequest(user_type, page))
           /\ \/ /\ Raise(FetchFailure("page"))
                 /\ UNCHANGED <<pagenum, yielded>>
              \/ LET items == PageData(page)
                 IN  /\ yielded' = yielded \o PageEntries(items)
                     /\ pagenum' = pagenum + 1
                     /\ pc' = IF LastPage(items) THEN "user_exhausted" ELSE "user_consume"
                     /\ UNCHANGED <<error, result>>
    /\ UNCHANGED <<ie, username, warnings, user_type, listing, run, firstRun>>
    /\ UNCHANGED <<loginVars, vodVars, liveVars>>

Next ==
    \/ CallLogin
    \/ PerformLogin
    \/ CallVod
    \/ DownloadView
    \/ CheckCode
    \/ CheckFlag
    \/ ProcessFile
    \/ Assemble
    \/ CallLive
    \/ DownloadInfo
    \/ ProbeToken
    \/ AssignStream
    \/ DownloadStation
    \/ CallUser
    \/ StartRun
    \/ FetchPage

Spec == Init /\ [][Next]_vars

(***************************************************************************)
(* Properties of AfreecaTVIE._real_extract.                                *)
(***************************************************************************)
VodCall == ie = "AfreecaTVIE" /\ data # None

\* the response passes the error-code check
PassesCode == data.code \notin {PyInt(-6221), PyInt(-6205)}

\* the response passes the content-flag check
PassesFlag == data.flag # PyStr("ADULT")

\* the positions in data['files'] of the elements whose 'file' is a URL
ValidAt == {i \in 1..Len(data.files) : url_or_none(data.files[i].file) # None}

\* the position in data['files'] of the k-th element whose 'file' is a URL
NthValid(k) == CHOOSE i \in ValidAt : Cardinality({j \in ValidAt : j <= i}) = k

ResponseTitle == IF data.title.t = "str" THEN data.title ELSE None

TitleOrUntitled == IF Truthy(ResponseTitle) THEN ResponseTitle.s ELSE "Untitled"

C2_Original ==
    (pc = "done" /\ VodCall /\ PassesCode /\ PassesFlag /\ Len(data.files) = 1) =>
        /\ result._type = "video"
        /\ result.title = ResponseTitle
        /\ result.formats = entries[1].formats

\* C2, amended: when the resolution returns and exactly one of the response's
\* file entries carries a URL, the result is a single media descriptor, not
\* a playlist; its title is the response's title as it is (None when the
\* response has none), and its id, uploader, duration and formats are those
\* of the entry built from that file element.
C2_SingleDescriptor ==
    (pc = "done" /\ VodCall /\ Cardinality(ValidAt) = 1) =>
        /\ result._type = "video"
        /\ result.title = ResponseTitle
        /\ Len(entries) = 1
        /\ result.id = entries[1].id
        /\ result.uploader = entries[1].uploader
        /\ result.duration = entries[1].duration
        /\ result.formats = entries[1].formats
        /\ result.formats # <<>>
        /\ \A i \in 1..Len(result.formats) :
              result.formats[i].url = data.files[NthValid(1)].file
        /\ result.id = Or(data.files[NthValid(1)].file_info_key, PyStr(video_id \o "_1"))

C2_Witness ==
    /\ pc = "done" /\ VodCall
    /\ Len(data.files) = 2 /\ Cardinality(ValidAt) = 1
    /\ data.title = PyStr("Joker")
    /\ result._type = "video"
    /\ result.title = PyStr("Joker")

\* C3: a response whose error code is -6221 fails with "does not exist" and one
\* whose error code is -6205 fails with "private"; the failure comes before the
\* flag is read, before any warning, and with the view-info request as
\* the only request issued, whatever else the response holds.
C3_ErrorCodesFailFirst ==
    (VodCall /\ data.code \in {PyInt(-6221), PyInt(-6205)}) =>
        /\ ~flagInspected
        /\ warnings = <<>>
        /\ entries = <<>>
        /\ requests = <<Request(PyStr(ViewURL), "view")>>
        /\ result = None
        /\ pc \in {"vod_code", "failed"}
        /\ pc = "failed" =>
              error = [type |-> "ExtractorError", expected |-> TRUE,
                       msg |-> IF data.code = PyInt(-6221)
                               THEN "The VOD does not exist"
                               ELSE "This VOD is private"]

C3_Witness ==
    /\ VodCall /\ pc = "failed"
    /\ data.code = PyInt(-6205)
    /\ data.flag = PyStr("ADULT")
    /\ Len(data.files) = 2
    /\ error.msg = "This VOD is private"

\* the resolution has ended
Ended == pc \in {"done", "failed"}

\* the files of the result: the 'file' URL of each entry, in order
RECURSIVE EntryFiles(_)
EntryFiles(es) ==
    IF es = <<>> THEN <<>> ELSE <<Head(es).formats[1].url>> \o EntryFiles(Tail(es))

C4_WitnessAdult ==
    /\ VodCall /\ pc = "failed"
    /\ data.flag = PyStr("ADULT") /\ username = None
    /\ Len(data.files) = 2

(***************************************************************************)
(* Properties of AfreecaTVLiveIE._real_extract.  The answers are read from *)
(* the log: answers[p] is the answer to requests[p].                       *)
(***************************************************************************)
\* a live resolution that has had the answer to its channel-info request
LiveCall == ie = "AfreecaTVLiveIE" /\ requests # <<>> /\ requests[1].what = "bid"

Tiers == 1..4

TierName(i) == <<"sd", "hd", "hd2k", "original">>[i]

TokenAsked(i) ==
    \E p \in 1..Len(requests) :
        requests[p].what = "Downloading access token for " \o TierName(i) \o " stream"

TokenFailed(i) ==
    \E p \in 1..Len(requests) :
        /\ requests[p].what = "Downloading access token for " \o TierName(i) \o " stream"
        /\ answers[p] = False

TokenGot(i) ==
    \E p \in 1..Len(requests) :
        /\ requests[p].what = "Downloading access token for " \o TierName(i) \o " stream"
        /\ answers[p] \notin {False, None, PyStr("")}

StreamAsked(i) ==
    \E p \in 1..Len(requests) :
        requests[p].what = "Downloading metadata for " \o TierName(i) \o " stream"

ViewUrlGot(i) ==
    \E p \in 1..Len(requests) :
        /\ requests[p].what = "Downloading metadata for " \o TierName(i) \o " stream"
        /\ answers[p] \notin {False, None}

PasswordMissing == channel_info.BPWD = PyStr("Y") /\ password = None

\* C5 as stated: with a broadcast number found and no token probe
\* succeeding, the resolution yields a descriptor with an empty format list
\* and does not fail; with no broadcast number it fails before any probe.
C5_Original ==
    (LiveCall /\ Ended) =>
        /\ (Truthy(broadcast_no) /\ \A i \in Tiers : ~TokenGot(i)) =>
              pc = "done" /\ result.formats = <<>>
        /\ ~Truthy(broadcast_no) =>
              pc = "failed" /\ \A i \in Tiers : ~TokenAsked(i)

\* C5, amended: with a broadcast number found, and unless the channel is
\* password-protected and no password was supplied, a resolution in which
\* none of the four token probes succeeds issues all four probes and yields a
\* descriptor with an empty format list, without failing.  A
\* password-protected channel without a supplied password fails, and so does
\* a resolution with no broadcast number in either place, both before any
\* token probe is issued.
C5_EmptyFormatsOrFail ==
    (LiveCall /\ Ended) =>
        /\ (Truthy(broadcast_no) /\ ~PasswordMissing /\ \A i \in Tiers : ~TokenGot(i)) =>
              /\ pc = "done"
              /\ result.formats = <<>>
              /\ result.id = broadcast_no
              /\ \A i \in Tiers : TokenAsked(i) /\ ~StreamAsked(i)
        /\ (Truthy(broadcast_no) /\ PasswordMissing) =>
              /\ pc = "failed"
              /\ error.msg = "This livestream is protected by a password, use the --video-password option"
              /\ Len(requests) = 1
        /\ ~Truthy(broadcast_no) =>
              /\ pc = "failed"
              /\ error.msg = "Unable to extract broadcast number (pyh3646 may not be live)"
              /\ Len(requests) = 1

C5_Witness ==
    /\ LiveCall /\ pc = "done"
    /\ channel_info.BPWD = PyStr("Y") /\ password # None
    /\ \A i \in Tiers : ~TokenGot(i)
    /\ TokenFailed(1) /\ ~TokenFailed(2)
    /\ result.formats = <<>>

C5_WitnessNotLive ==
    /\ LiveCall /\ pc = "failed" /\ ~Truthy(broadcast_no)

\* the format the code is to build for tier i from the logged answers
TokenAnswer(i) ==
    answers[CHOOSE p \in 1..Len(requests) :
               requests[p].what = "Downloading access token for " \o TierName(i) \o " stream"]

ViewUrlAnswer(i) ==
    answers[CHOOSE p \in 1..Len(requests) :
               requests[p].what = "Downloading metadata for " \o TierName(i) \o " stream"]

ExpectedFormat(i) ==
    [ format_id |-> TierName(i),
      url |-> [t |-> "str", u |-> ViewUrlAnswer(i).u,
               query |-> <<[key |-> "aid", value |-> TokenAnswer(i).s]>>],
      ext |-> "mp4",
      protocol |-> "m3u8",
      quality |-> i - 1 ]

RECURSIVE ExpectedFormats(_)
ExpectedFormats(i) ==
    IF i = 0 THEN <<>>
    ELSE ExpectedFormats(i - 1)
         \o (IF TokenGot(i) /\ ViewUrlGot(i) THEN <<ExpectedFormat(i)>> ELSE <<>>)

\* C10: at every point of a live resolution the format list is the
\* subsequence, in the order sd, hd, hd2k, original, of the tiers for which a
\* token and a view URL were obtained; a tier's stream-assignment request
\* directly follows the request that obtained its token; every format has a
\* non-empty URL with the tier's token as its aid parameter and the tier's
\* position in the list as its quality; the returned formats are that list.
C10_FormatsAreObtainedTiers ==
    LiveCall =>
        /\ formats = ExpectedFormats(4)
        /\ \A k \in 1..Len(formats) : formats[k].url.u # <<>>
        /\ \A i \in Tiers : \A p \in 1..Len(requests) :
              requests[p].what = "Downloading metadata for " \o TierName(i) \o " stream" =>
                 /\ p > 1
                 /\ requests[p - 1].what = "Downloading access token for " \o TierName(i) \o " stream"
                 /\ p - 1 <= Len(answers)
                 /\ answers[p - 1] \notin {False, None, PyStr("")}
        /\ pc = "done" => result.formats = formats

C10_Witness ==
    /\ LiveCall /\ pc = "done"
    /\ TokenFailed(1)
    /\ TokenGot(2) /\ ~ViewUrlGot(2)
    /\ TokenGot(3) /\ ViewUrlGot(3)
    /\ TokenGot(4) /\ ViewUrlGot(4)
    /\ Len(result.formats) = 2
    /\ result.formats[1].format_id = "hd2k" /\ result.formats[1].quality = 2
    /\ result.formats[2].url.query = <<[key |-> "aid", value |-> "aid_original"]>>

(***************************************************************************)
(* Properties of the user listing.                                         *)
(***************************************************************************)
UserCall == ie = "AfreecaTVUserIE"

\* the first page (1-based) on which the server has no items
FirstEmptyPage ==
    CHOOSE p \in 1..(Len(listing) + 1) :
        /\ p \in 1..Len(listing) => listing[p] = 0
        /\ \A q \in 1..(p - 1) : listing[q] > 0

RequestOfPage(p) ==
    [ url |-> PyStr("https://bjapi.afreecatv.com/api/ryuryu24/vods/" \o user_type.s
                    \o "?page=" \o ToString(p) \o "&per_page=60&orderby=reg_date"),
      what |-> "Downloading " \o user_type.s \o " video page " \o ToString(p) ]

IsPrefix(a, b) == Len(a) <= Len(b) /\ a = SubSeq(b, 1, Len(a))

C6_WitnessEarlyStop ==
    /\ UserCall /\ pc = "user_exhausted"
    /\ listing = <<0, 60>>
    /\ Len(requests) = 1

C9_Original ==
    /\ (LiveCall /\ Len(requests) > 1) => pc # "failed"
    /\ (UserCall /\ run >= 1) => pc # "failed"

\* C9, amended: a failed token probe is soft: it is reported as a warning,
\* the tier gets no stream-assignment request and no format, and the next
\* request is the token probe of the next tier (the station-status request
\* after the last tier), so a resolution that got past the channel checks
\* never fails.  A failed fetch of a listing page is not soft: the
\* consumption ends there with the download error, having yielded the items
\* of the pages before, and requests no further page.
C9_SoftTokenHardPage ==
    /\ LiveCall =>
          /\ Len(requests) > 1 => pc # "failed"
          /\ pc = "done" => \A i \in Tiers : TokenAsked(i)
          /\ \A i \in Tiers : TokenFailed(i) =>
                /\ ~StreamAsked(i)
                /\ \A k \in 1..Len(formats) : formats[k].format_id # TierName(i)
                /\ \E w \in 1..Len(warnings) :
                      warnings[w] = "Unable to download access token for " \o TierName(i) \o " stream"
                /\ \A p \in 1..(Len(requests) - 1) :
                      requests[p].what = "Downloading access token for " \o TierName(i) \o " stream" =>
                         requests[p + 1].what =
                            IF i < 4
                            THEN "Downloading access token for " \o TierName(i + 1) \o " stream"
                            ELSE "Downloading channel metadata"
    /\ (UserCall /\ pc = "failed") =>
          /\ error = [type |-> "ExtractorError", msg |-> "download failed", expected |-> FALSE]
          /\ Len(requests) <= FirstEmptyPage
          /\ \A q \in 1..(Len(requests) - 1) : listing[q] > 0
          /\ Len(yielded) = 60 * Cardinality({q \in 1..(Len(requests) - 1) : listing[q] = 60})
                            + Cardinality({q \in 1..(Len(requests) - 1) : listing[q] = 1})
          /\ ~ENABLED FetchPage

C9_Witness ==
    /\ LiveCall /\ pc = "done"
    /\ TokenFailed(1) /\ TokenFailed(3)
    /\ TokenGot(2) /\ TokenGot(4)
    /\ Len(result.formats) = 2

C9_WitnessPage ==
    /\ UserCall /\ pc = "failed"
    /\ listing = <<60, 1>>
    /\ Len(requests) = 2
    /\ Len(yielded) = 60

(***************************************************************************)
(* Properties of _perform_login.                                           *)
(***************************************************************************)
LoginCall == requests = <<Request(PyStr(LoginURL), "Logging in")>> /\ response # None

\* the code a RESULT stands for: the integer itself, or the integer a
\* string of digits with an optional sign denotes; None for anything else
ResultCode == int_or_none(response.RESULT, 1)

TableCodes == {-4, -5, -6, -8, -9, -11, -12, 0, -1, -3, -7, -10, -32008}

\* C8: the login returns normally exactly when the code of RESULT is 1; for
\* every other code, a missing or non-numeric RESULT included, it raises an
\* expected error "Unable to login: <IE_NAME> said: <message>", the message
\* being the table's for a code of the table and
\* "You have failed to log in." for any other.
C8_LoginResult ==
    LoginCall =>
        /\ pc \in {"done", "failed"}
        /\ pc = "done" <=> ResultCode = PyInt(1)
        /\ pc = "done" => error = None
        /\ pc = "failed" =>
              /\ error.type = "ExtractorError" /\ error.expected
              /\ error.msg =
                    "Unable to login: "
                    \o (IF ie = "AfreecaTVIE" THEN "afreecatv" ELSE "afreecatv:live")
                    \o " said: "
                    \o (IF ResultCode # None /\ ResultCode.v \in TableCodes
                        THEN _ERRORS(ResultCode)
                        ELSE "You have failed to log in.")
              /\ (ResultCode # None /\ ResultCode.v \in TableCodes /\ ResultCode.v # -32008) =>
                    error.msg # "Unable to login: " \o IE_NAME(ie) \o " said: You have failed to log in."

C8_Witness ==
    /\ LoginCall /\ pc = "failed"
    /\ response.RESULT = Chars(<<"-", "1">>)
    /\ error.msg = "Unable to login: afreecatv said: The username does not exist or you have entered the wrong password."

C8_WitnessReturn ==
    /\ LoginCall /\ pc = "done"
    /\ response.RESULT = Chars(<<"0", "1">>)

=============================================================================
